---- MODULE Spec2Model ----
(***************************************************************************)
(* The slave (node agent) of src/slave/slave.cpp as a state machine: the   *)
(* framework -> executor -> task graph, the master link, the status-update *)
(* pipeline with its retry timers, and the dispatches to the isolation     *)
(* module.  One action per message handler, timer firing or callback.      *)
(***************************************************************************)
EXTENDS Integers, Sequences, FiniteSets, Bags, TLC

(* ------------------------------ bounds --------------------------------- *)

\* Number of events (messages, timer firings, callbacks) the slave serves.
MaxEvents == 4

(* --------------------------- value domains ----------------------------- *)

FrameworkIds == {"f1", "f2"}
ExecutorIds == {"e1", "e2"}
TaskIds == {"t1", "t2"}

\* UPID(): the empty endpoint (Executor::pid before registration, the
\* master before detection).
NoPid == ""
ExecutorPids == {"x1", "x2"}
MasterPids == {"m1", "m2"}
SchedulerPids == {"s1", "s2"}

\* SlaveID: "" until the master assigns one.
NoSlaveId == ""
SlaveIds == {"S1", "S2"}

TaskStates ==
  {"TASK_STARTING", "TASK_RUNNING", "TASK_FINISHED",
   "TASK_FAILED", "TASK_KILLED", "TASK_LOST"}

\* The states Slave::statusUpdate treats as terminal.
TerminalStates == {"TASK_FINISHED", "TASK_FAILED", "TASK_KILLED", "TASK_LOST"}

\* The states executors report in the updates they deliver.
ReportedStates == {"TASK_RUNNING", "TASK_FINISHED", "TASK_LOST"}

\* The executor id an update carries (Slave::statusUpdate never reads it).
UpdateExecutorIds == {"e1"}

\* ExecutorInfo: the executor's id and the data blob handed to it.
ExecutorInfo(e) == [executor_id |-> e, data |-> "data"]

\* FrameworkInfo: name and default executor.
FrameworkInfos == {[name |-> "fw", executor |-> ExecutorInfo("e1")]}

\* Resource bundles: scalars by name.
NoResources == [cpus |-> 0, mem |-> 0]

\* The resources the master allocated to each task.
TaskResources(t) == IF t = "t1" THEN [cpus |-> 1, mem |-> 2] ELSE [cpus |-> 2, mem |-> 1]

\* SlaveInfo of the agent (Slave::operator()).
info == [hostname |-> "host", public_hostname |-> "host",
         resources |-> [cpus |-> 4, mem |-> 8]]

\* Exit statuses the isolation module reports.
ExitStatuses == {137}

\* TaskDescription: a task either nominates executor e2 or names none and
\* runs on the framework's default executor.
TaskDescriptions ==
  {[task_id |-> t, resources |-> TaskResources(t), has_executor |-> h,
    executor |-> ExecutorInfo("e2")] :
     t \in TaskIds, h \in BOOLEAN}

(* ------------------------------ state ---------------------------------- *)

VARIABLES
  frameworks,   \* Slave::frameworks: FrameworkID -> Framework
  master,       \* Slave::master
  id,           \* Slave::id
  stats,        \* Slave::stats
  timers,       \* pending delay(...statusUpdateTimeout, update) firings
  running,      \* "running", "aborted" (CHECK / LOG(FATAL)), "terminated"
  clock,        \* events served so far
  maxSent,      \* newest timestamp among the reliable updates sent so far
  arrival,      \* per executor: task ids queued by runTask, in arrival order
  last,         \* the event being served; NoEvent at the top of the loop
  out,          \* what the handler of `last` did, in program order
  dirs,         \* the work directories that exist on disk
  launching     \* work directories of the launchExecutor calls dispatched to
                \* the isolation module and not yet acted upon

vars == <<frameworks, master, id, stats, timers, running, clock, maxSent,
          arrival, last, out, dirs, launching>>

(* ----------------------------- helpers --------------------------------- *)

\* hashmap operations.
EmptyMap == <<>>
Put(m, k, v) == [x \in (DOMAIN m) \cup {k} |-> IF x = k THEN v ELSE m[x]]
Erase(m, k) == [x \in (DOMAIN m) \ {k} |-> m[x]]

\* The orders in which a foreach over a hashmap with key set S can run.
Orders(S) ==
  {o \in [1..Cardinality(S) -> S] : \A i, j \in 1..Cardinality(S) : o[i] = o[j] => i = j}

\* Resources::operator+= and operator-= on scalar bundles.
ResAdd(a, b) == [cpus |-> a.cpus + b.cpus, mem |-> a.mem + b.mem]
ResSub(a, b) == [cpus |-> a.cpus - b.cpus, mem |-> a.mem - b.mem]

\* Entries of the handler log `out`.
Send(to, msg) == [kind |-> "send", to |-> to, msg |-> msg]
Dispatch(call, args) == [kind |-> "dispatch", call |-> call, args |-> args]
Delay(update) == [kind |-> "delay", update |-> update]
Call(op, eid, tid) == [kind |-> op, executor_id |-> eid, task_id |-> tid]
Log(text) == [kind |-> "log", text |-> text]
Ledger(fid, eid, resources) ==
  [kind |-> "ledger", framework_id |-> fid, executor_id |-> eid,
   resources |-> resources]

ResourcesChanged(fid, executor) ==
  Dispatch("resourcesChanged",
           [framework_id |-> fid, executor_id |-> executor.id,
            resources |-> executor.resources])

(* ------------------------ Executor (struct) ---------------------------- *)

NewExecutor(frameworkId, executorInfo, directory) ==
  [id |-> executorInfo.executor_id, info |-> executorInfo,
   frameworkId |-> frameworkId, directory |-> directory,
   pid |-> NoPid, resources |-> NoResources,
   queuedTasks |-> EmptyMap, launchedTasks |-> EmptyMap]

\* The Task record Executor::addTask builds.
NewTask(executor, task) ==
  [task_id |-> task.task_id, framework_id |-> executor.frameworkId,
   executor_id |-> executor.id, state |-> "TASK_STARTING",
   resources |-> task.resources]

\* Executor::addTask's CHECK.
addTaskCheck(executor, task) == task.task_id \notin DOMAIN executor.launchedTasks

\* Executor::addTask is declared to return Task* and ends without a return
\* statement.  Flowing off its end is undefined: a build either hands back an
\* indeterminate pointer, which both callers discard, or treats the end of
\* the function as unreachable, and the process dies there.
addTaskOutcomes == {"returns", "dies"}

\* Executor::addTask past its CHECK: the record it leaves behind.
addTask(executor, task) ==
  [executor EXCEPT
     !.launchedTasks = Put(@, task.task_id, NewTask(executor, task)),
     !.resources = ResAdd(@, task.resources)]

\* removeTask forgetting the ledger: the task goes, its resources stay.
removeTaskKeepResources(executor, taskId) ==
  [executor EXCEPT
     !.queuedTasks = Erase(@, taskId),
     !.launchedTasks = Erase(@, taskId)]

\* removeTask without the erase from queuedTasks.
removeTaskLaunchedOnly(executor, taskId) ==
  [executor EXCEPT
     !.launchedTasks = Erase(@, taskId),
     !.resources = IF taskId \in DOMAIN executor.launchedTasks
                   THEN ResSub(@, executor.launchedTasks[taskId].resources)
                   ELSE @]

removeTask(executor, taskId) ==
  [executor EXCEPT
     !.queuedTasks = Erase(@, taskId),
     !.launchedTasks = Erase(@, taskId),
     !.resources = IF taskId \in DOMAIN executor.launchedTasks
                   THEN ResSub(@, executor.launchedTasks[taskId].resources)
                   ELSE @]

\* queuedTasks[task.task_id()] = task dropping the task.
queueTaskDropped(executor, task) == executor

\* executor->queuedTasks[task.task_id()] = task
queueTask(executor, task) ==
  [executor EXCEPT !.queuedTasks = Put(@, task.task_id, task)]

\* The flush leaving the queue as it was.
clearQueuedTasksNothing(executor) == executor

\* executor->queuedTasks.clear()
clearQueuedTasks(executor) == [executor EXCEPT !.queuedTasks = EmptyMap]

\* The test taking every executor for one still starting up.
isUnregisteredAlways(executor) == TRUE

\* The test taking every executor for a running one.
isUnregisteredNever(executor) == FALSE

\* !executor->pid: the executor has not registered yet.
isUnregistered(executor) == executor.pid = NoPid

\* The test never finding an executor running.
alreadyRunningNever(executor) == FALSE

\* executor->pid != UPID(): the executor registered before.
alreadyRunning(executor) == executor.pid # NoPid

updateTaskState(executor, taskId, state) ==
  IF taskId \in DOMAIN executor.launchedTasks
  THEN [executor EXCEPT !.launchedTasks[taskId].state = state]
  ELSE executor

(* ------------------------ Framework (struct) --------------------------- *)

NewFramework(fid, frameworkInfo, pid) ==
  [id |-> fid, info |-> frameworkInfo, pid |-> pid,
   executors |-> EmptyMap, updates |-> EmptyMap]

\* Framework::createExecutor's CHECK.
createExecutorCheck(framework, executorInfo) ==
  executorInfo.executor_id \notin DOMAIN framework.executors

createExecutor(framework, executorInfo, directory) ==
  [framework EXCEPT
     !.executors = Put(@, executorInfo.executor_id,
                       NewExecutor(framework.id, executorInfo, directory))]

destroyExecutor(framework, executorId) ==
  [framework EXCEPT !.executors = Erase(@, executorId)]

\* Framework::getExecutor(const ExecutorID&): TRUE when it returns non-NULL.
hasExecutor(framework, executorId) == executorId \in DOMAIN framework.executors

\* Framework::getExecutor(const TaskID&): the executors the foreach over the
\* hashmap can return, one of those holding the task; empty means NULL.
getExecutorOfTask(framework, taskId) ==
  {e \in DOMAIN framework.executors :
     \/ taskId \in DOMAIN framework.executors[e].queuedTasks
     \/ taskId \in DOMAIN framework.executors[e].launchedTasks}

\* Slave::getFramework: TRUE when it returns non-NULL.
getFramework(fid) == fid \in DOMAIN frameworks

(* ------------------------------ Init ----------------------------------- *)

NoEvent == [name |-> "none", args |-> <<>>]

\* Slave::initialize: all statistics start at 0.
InitStats ==
  [tasks |-> [s \in TaskStates |-> 0],
   validStatusUpdates |-> 0, invalidStatusUpdates |-> 0,
   validFrameworkMessages |-> 0, invalidFrameworkMessages |-> 0]

Init ==
  /\ frameworks = EmptyMap
  /\ master = NoPid
  /\ id = NoSlaveId
  /\ stats = InitStats
  /\ timers = {}
  /\ running = "running"
  /\ clock = 0
  /\ maxSent = -1
  /\ arrival = [k \in FrameworkIds \X ExecutorIds |-> <<>>]
  /\ last = NoEvent
  /\ out = <<>>
  /\ dirs = {}
  /\ launching = {}

\* A loop that goes on serving after the process has left it.
ServeAfterBreak(name, args) ==
  /\ last = NoEvent
  /\ clock < MaxEvents
  /\ clock' = clock + 1
  /\ last' = [name |-> name, args |-> args]
  /\ UNCHANGED dirs

\* The serve(1) loop of Slave::operator(): one event at a time, while the
\* process lives.
Serve(name, args) ==
  /\ running = "running"
  /\ last = NoEvent
  /\ clock < MaxEvents
  /\ clock' = clock + 1
  /\ last' = [name |-> name, args |-> args]
  /\ UNCHANGED dirs

\* Back at serve(1): the handler has returned and the next event is awaited.
loop ==
  /\ last # NoEvent
  /\ last' = NoEvent
  /\ out' = <<>>
  /\ UNCHANGED <<frameworks, master, id, stats, timers, running, clock,
                 maxSent, arrival, dirs, launching>>

\* Executors and the slave stamp status updates in the order they are made.
Now == stats.validStatusUpdates + stats.invalidStatusUpdates

\* Timestamps of the reliable status updates a handler log sends the master.
ReliableSent(o) ==
  {o[i].msg.update.timestamp :
     i \in {j \in DOMAIN o : /\ o[j].kind = "send"
                             /\ o[j].msg.type = "StatusUpdate"
                             /\ o[j].msg.reliable}}

SetMax(S, d) == IF S = {} THEN d ELSE CHOOSE x \in S : \A y \in S : y <= x

ClearArrival(keys) == [k \in DOMAIN arrival |-> IF k \in keys THEN <<>> ELSE arrival[k]]

(* --------------------------- master link ------------------------------- *)

\* The tasks newMasterDetected adds to ReregisterSlaveMessage: every launched
\* task of every executor of every framework (as a bag: the order of the
\* repeated field follows the hashmaps' iteration).
LaunchedTasks ==
  {frameworks[f].executors[e].launchedTasks[t] :
     <<f, e, t>> \in {x \in (DOMAIN frameworks) \X ExecutorIds \X TaskIds :
                        /\ x[2] \in DOMAIN frameworks[x[1]].executors
                        /\ x[3] \in DOMAIN frameworks[x[1]].executors[x[2]].launchedTasks}}

\* The task list with the queued tasks added as well.
ReregisterTasksWithQueued ==
  SetToBag(LaunchedTasks \cup
    {NewTask(frameworks[f].executors[e], frameworks[f].executors[e].queuedTasks[t]) :
       <<f, e, t>> \in {x \in (DOMAIN frameworks) \X ExecutorIds \X TaskIds :
                          /\ x[2] \in DOMAIN frameworks[x[1]].executors
                          /\ x[3] \in DOMAIN frameworks[x[1]].executors[x[2]].queuedTasks}})

ReregisterTasks == SetToBag(LaunchedTasks)

\* The test taking the slave for unregistered whatever its id.
startedBeforeMasterAlways == TRUE

\* id == "": the slave started before the master.
startedBeforeMaster == id = NoSlaveId

newMasterDetected(pid) ==
  /\ Serve("newMasterDetected", [pid |-> pid])
  /\ master' = pid
  /\ out' = IF startedBeforeMaster
            THEN <<Send(pid, [type |-> "RegisterSlave", slave |-> info])>>
            ELSE <<Send(pid, [type |-> "ReregisterSlave", slave_id |-> id,
                              slave |-> info, tasks |-> ReregisterTasks])>>
  /\ UNCHANGED <<frameworks, id, stats, timers, running, maxSent,
                 arrival, launching>>

noMasterDetected ==
  /\ Serve("noMasterDetected", <<>>)
  /\ out' = <<>>
  /\ UNCHANGED <<frameworks, master, id, stats, timers, running,
                 maxSent, arrival, launching>>

registered(slaveId) ==
  /\ Serve("registered", [slave_id |-> slaveId])
  /\ id' = slaveId
  /\ out' = <<>>
  /\ UNCHANGED <<frameworks, master, stats, timers, running, maxSent,
                 arrival, launching>>

\* LOG(FATAL) on a mismatched id ends the process.
reregistered(slaveId) ==
  /\ Serve("reregistered", [slave_id |-> slaveId])
  /\ running' = IF id = slaveId THEN running ELSE "aborted"
  /\ out' = <<>>
  /\ UNCHANGED <<frameworks, master, id, stats, timers, maxSent,
                 arrival, launching>>

\* Slave::exited: a log line only, whoever exited.
exited(from) ==
  /\ Serve("exited", [from |-> from])
  /\ out' = <<>>
  /\ UNCHANGED <<frameworks, master, id, stats, timers, running,
                 maxSent, arrival, launching>>

ping(from) ==
  /\ Serve("ping", [from |-> from])
  /\ out' = <<Send(from, [type |-> "PONG"])>>
  /\ UNCHANGED <<frameworks, master, id, stats, timers, running,
                 maxSent, arrival, launching>>

(* ------------------------------ runTask -------------------------------- *)

\* <work_dir>/work/slave-<id>/fw-<frameworkId>-<executorId>/<n>
WorkDirectory(frameworkId, executorId, n) ==
  [slave_id |-> id, framework_id |-> frameworkId, executor_id |-> executorId,
   n |-> n]

\* Slave::getUniqueWorkDirectory: the first index, counting from i, whose
\* path opendir does not find.
RECURSIVE firstFree(_, _, _)
firstFree(frameworkId, executorId, i) ==
  IF WorkDirectory(frameworkId, executorId, i) \notin dirs THEN i
  ELSE firstFree(frameworkId, executorId, i + 1)

getUniqueWorkDirectory(frameworkId, executorId) ==
  WorkDirectory(frameworkId, executorId, firstFree(frameworkId, executorId, 0))

RunTaskMessage(framework, task) ==
  [type |-> "RunTask", framework |-> framework.info,
   framework_id |-> framework.id, pid |-> framework.pid, task |-> task]

runTask(frameworkInfo, frameworkId, pid, task) ==
  LET framework == IF getFramework(frameworkId)
                   THEN frameworks[frameworkId]
                   ELSE NewFramework(frameworkId, frameworkInfo, pid)
      executorInfo == IF task.has_executor THEN task.executor
                      ELSE framework.info.executor
      executorId == executorInfo.executor_id
      key == <<frameworkId, executorId>>
  IN
  /\ Serve("runTask", [framework_id |-> frameworkId, pid |-> pid, task |-> task])
  /\ IF hasExecutor(framework, executorId)
     THEN LET executor == framework.executors[executorId] IN
          IF isUnregistered(executor)
          THEN \* Queue task until the executor starts up.
               /\ frameworks' = Put(frameworks, frameworkId,
                    [framework EXCEPT !.executors[executorId] =
                                        queueTask(executor, task)])
               /\ arrival' = [arrival EXCEPT ![key] = Append(@, task.task_id)]
               /\ out' = <<>>
               /\ UNCHANGED <<stats, running, launching>>
          ELSE IF ~addTaskCheck(executor, task)
          THEN \* CHECK failure in addTask.
               /\ running' = "aborted"
               /\ out' = <<>>
               /\ UNCHANGED <<frameworks, stats, arrival, launching>>
          ELSE LET added == addTask(executor, task) IN
               \E outcome \in addTaskOutcomes :
                 IF outcome = "dies"
                 THEN /\ running' = "aborted"
                      /\ out' = <<Ledger(frameworkId, executorId, added.resources)>>
                      /\ UNCHANGED <<frameworks, stats, arrival, launching>>
                 ELSE /\ frameworks' = Put(frameworks, frameworkId,
                           [framework EXCEPT !.executors[executorId] = added])
                      /\ stats' = [stats EXCEPT !.tasks["TASK_STARTING"] = @ + 1]
                      /\ out' = <<Ledger(frameworkId, executorId, added.resources),
                                  Send(executor.pid, RunTaskMessage(framework, task)),
                                  ResourcesChanged(frameworkId, added)>>
                      /\ UNCHANGED <<running, arrival, launching>>
     ELSE \* Launch an executor for this task.
          LET directory == getUniqueWorkDirectory(framework.id, executorId)
              created == createExecutor(framework, executorInfo, directory)
              executor == created.executors[executorId]
          IN
          /\ frameworks' = Put(frameworks, frameworkId,
               [created EXCEPT !.executors[executorId] =
                                 queueTask(executor, task)])
          /\ arrival' = [arrival EXCEPT ![key] = <<task.task_id>>]
          /\ out' = <<Dispatch("launchExecutor",
                               [framework_id |-> frameworkId,
                                framework |-> framework.info,
                                executor |-> executor.info,
                                directory |-> directory])>>
          /\ launching' = launching \cup {directory}
          /\ UNCHANGED <<stats, running>>
  /\ UNCHANGED <<master, id, timers, maxSent>>

(* -------------------------- registerExecutor --------------------------- *)

ShutdownMessage == [type |-> "Shutdown"]

ExecutorRegisteredMessage(framework, executor) ==
  [type |-> "ExecutorRegistered",
   args |-> [framework_id |-> framework.id, executor_id |-> executor.id,
             slave_id |-> id, hostname |-> info.hostname,
             data |-> executor.info.data]]

\* The flush loop of registerExecutor over the queued tasks taken in `order`:
\* the executor after the first n tasks were added.
RECURSIVE FlushExecutor(_, _, _)
FlushExecutor(executor, order, n) ==
  IF n = 0 THEN executor
  ELSE addTask(FlushExecutor(executor, order, n - 1),
               executor.queuedTasks[order[n]])

\* What the flush loop puts on the handler log for the n-th task.
FlushLog(framework, executor, order, n) ==
  <<Ledger(framework.id, executor.id,
           FlushExecutor(executor, order, n).resources),
    Send(executor.pid, RunTaskMessage(framework, executor.queuedTasks[order[n]]))>>

RECURSIVE FlushLogs(_, _, _, _)
FlushLogs(framework, executor, order, n) ==
  IF n = 0 THEN <<>>
  ELSE FlushLogs(framework, executor, order, n - 1)
       \o FlushLog(framework, executor, order, n)

\* The work directories of the launchExecutor calls dispatched so far for an
\* executor id of a framework: an executor process that sends RegisterExecutor
\* was launched with one of them.  Each is given as a one-element set; the
\* empty set stands for a process this slave launched none of.
Launched(frameworkId, executorId) ==
  LET directories == {d \in dirs \cup launching :
                        /\ d.framework_id = frameworkId
                        /\ d.executor_id = executorId}
  IN IF directories = {} THEN {{}} ELSE {{d} : d \in directories}

\* `directory` is the work directory the sending process was launched with;
\* the message carries only the two ids and the handler never sees it.
registerExecutor(frameworkId, executorId, from) ==
  /\ \E directory \in Launched(frameworkId, executorId) :
       Serve("registerExecutor",
             [framework_id |-> frameworkId, executor_id |-> executorId,
              from |-> from, directory |-> directory])
  /\ IF ~getFramework(frameworkId)
     THEN /\ out' = <<Send(from, ShutdownMessage)>>
          /\ UNCHANGED <<frameworks, stats, arrival, running>>
     ELSE LET framework == frameworks[frameworkId] IN
          IF ~hasExecutor(framework, executorId)
          THEN /\ out' = <<Send(from, ShutdownMessage)>>
               /\ UNCHANGED <<frameworks, stats, arrival, running>>
          ELSE IF alreadyRunning(framework.executors[executorId])
          THEN /\ out' = <<Send(from, ShutdownMessage)>>
               /\ UNCHANGED <<frameworks, stats, arrival, running>>
          ELSE LET executor == [framework.executors[executorId] EXCEPT !.pid = from]
                   k == Cardinality(DOMAIN executor.queuedTasks)
               IN
               \E order \in Orders(DOMAIN executor.queuedTasks) :
               \E outcome \in addTaskOutcomes :
                 IF outcome = "dies" /\ k > 0
                 THEN \* the first addTask of the flush loop does not return
                      /\ running' = "aborted"
                      /\ out' = <<ResourcesChanged(frameworkId, executor),
                                  Send(from, ExecutorRegisteredMessage(framework, executor)),
                                  Ledger(frameworkId, executorId,
                                         FlushExecutor(executor, order, 1).resources)>>
                      /\ UNCHANGED <<frameworks, stats, arrival>>
                 ELSE /\ frameworks' = Put(frameworks, frameworkId,
                           [framework EXCEPT !.executors[executorId] =
                              clearQueuedTasks(
                                FlushExecutor(executor, order, k))])
                      /\ stats' = [stats EXCEPT !.tasks["TASK_STARTING"] = @ + k]
                      /\ out' = <<ResourcesChanged(frameworkId, executor),
                                  Send(from, ExecutorRegisteredMessage(framework, executor))>>
                                \o FlushLogs(framework, executor, order, k)
                      /\ arrival' = ClearArrival({<<frameworkId, executorId>>})
                      /\ UNCHANGED running
  /\ UNCHANGED <<master, id, timers, maxSent, launching>>

(* ------------------------- teardown routines --------------------------- *)

\* Slave::removeExecutor: the framework without the executor, and the log.
\* removeExecutor shutting the executor down whatever killExecutor says.
removeExecutorLogAlwaysKill(framework, executor, killExecutor) ==
  <<Send(executor.pid, ShutdownMessage),
    Dispatch("killExecutor",
             [framework_id |-> framework.id, executor_id |-> executor.id])>>

removeExecutorLog(framework, executor, killExecutor) ==
  IF killExecutor
  THEN <<Send(executor.pid, ShutdownMessage),
         Dispatch("killExecutor",
                  [framework_id |-> framework.id, executor_id |-> executor.id])>>
  ELSE <<>>

removeExecutor(framework, executor, killExecutor) ==
  destroyExecutor(framework, executor.id)

\* Slave::removeFramework: the log of removing the executors in `order` (the
\* iteration order over the copy of framework->executors).
RECURSIVE removeFrameworkLog(_, _, _, _)
removeFrameworkLog(framework, killExecutors, order, n) ==
  IF n = 0 THEN <<>>
  ELSE removeFrameworkLog(framework, killExecutors, order, n - 1)
       \o removeExecutorLog(framework, framework.executors[order[n]], killExecutors)

\* removeFramework leaving the framework in the map.
removeFrameworkKept(framework) == frameworks

\* Slave::removeFramework: the framework map afterwards.
removeFramework(framework) == Erase(frameworks, framework.id)

\* The killExecutors argument of the removeFramework(framework) calls: the
\* default of the declaration.
killExecutorsDefault == TRUE

ArrivalKeys(fid) == {fid} \X ExecutorIds

(* ------------------------------ killTask ------------------------------- *)

\* Messages with the reliable flag always set.
StatusUpdateMessageReliable(update, reliable) ==
  [type |-> "StatusUpdate", update |-> update, reliable |-> TRUE]

StatusUpdateMessage(update, reliable) ==
  [type |-> "StatusUpdate", update |-> update, reliable |-> reliable]

\* The status updates killTask fabricates.
FabricatedUpdate(frameworkId, executorId, taskId, state, sequence) ==
  [framework_id |-> frameworkId, executor_id |-> executorId, slave_id |-> id,
   status |-> [task_id |-> taskId, state |-> state],
   timestamp |-> Now, sequence |-> sequence]

killTask(frameworkId, taskId) ==
  /\ Serve("killTask", [framework_id |-> frameworkId, task_id |-> taskId])
  /\ IF ~getFramework(frameworkId)
     THEN /\ out' = <<Send(master, StatusUpdateMessage(
                        FabricatedUpdate(frameworkId, "", taskId, "TASK_LOST", -1),
                        FALSE))>>
          /\ UNCHANGED <<frameworks, arrival>>
     ELSE LET framework == frameworks[frameworkId] IN
          IF getExecutorOfTask(framework, taskId) = {}
          THEN /\ out' = <<Send(master, StatusUpdateMessage(
                             FabricatedUpdate(frameworkId, "", taskId, "TASK_LOST", -1),
                             FALSE))>>
               /\ UNCHANGED <<frameworks, arrival>>
          ELSE \E executorId \in getExecutorOfTask(framework, taskId) :
                 LET executor == framework.executors[executorId] IN
                 IF isUnregistered(executor)
                 THEN LET removed == removeTask(executor, taskId) IN
                      /\ frameworks' = [frameworks EXCEPT
                           ![frameworkId].executors[executorId] = removed]
                      /\ out' = <<Call("removeTask", executorId, taskId)>>
                                 \o (IF removed.resources # executor.resources
                                     THEN <<Ledger(frameworkId, executorId,
                                                   removed.resources)>>
                                     ELSE <<>>)
                                 \o
                                 <<ResourcesChanged(frameworkId, removed),
                                  Send(master, StatusUpdateMessage(
                                    FabricatedUpdate(frameworkId, executorId, taskId,
                                                     "TASK_KILLED", 0),
                                    FALSE))>>
                      /\ UNCHANGED arrival
                 ELSE /\ out' = <<Send(executor.pid,
                                       [type |-> "KillTask",
                                        framework_id |-> frameworkId,
                                        task_id |-> taskId])>>
                      /\ UNCHANGED <<frameworks, arrival>>
  /\ UNCHANGED <<master, id, stats, timers, running, maxSent, launching>>

(* ---------------------------- killFramework ---------------------------- *)

killFramework(frameworkId) ==
  /\ Serve("killFramework", [framework_id |-> frameworkId])
  /\ IF getFramework(frameworkId)
     THEN LET framework == frameworks[frameworkId] IN
          \E order \in Orders(DOMAIN framework.executors) :
            /\ frameworks' = removeFramework(framework)
            /\ out' = removeFrameworkLog(framework, killExecutorsDefault, order,
                                         Cardinality(DOMAIN framework.executors))
            /\ arrival' = ClearArrival(ArrivalKeys(frameworkId))
     ELSE /\ out' = <<>>
          /\ UNCHANGED <<frameworks, arrival>>
  /\ UNCHANGED <<master, id, stats, timers, running, maxSent, launching>>

(* ------------------------- framework messages -------------------------- *)

schedulerMessage(slaveId, frameworkId, executorId, data) ==
  /\ Serve("schedulerMessage",
           [slave_id |-> slaveId, framework_id |-> frameworkId,
            executor_id |-> executorId, data |-> data])
  /\ IF /\ getFramework(frameworkId)
        /\ hasExecutor(frameworks[frameworkId], executorId)
        /\ ~isUnregistered(frameworks[frameworkId].executors[executorId])
     THEN /\ out' = <<Send(frameworks[frameworkId].executors[executorId].pid,
                           [type |-> "FrameworkToExecutor", slave_id |-> slaveId,
                            framework_id |-> frameworkId,
                            executor_id |-> executorId, data |-> data])>>
          /\ stats' = [stats EXCEPT !.validFrameworkMessages = @ + 1]
     ELSE /\ out' = <<>>
          /\ stats' = [stats EXCEPT !.invalidFrameworkMessages = @ + 1]
  /\ UNCHANGED <<frameworks, master, id, timers, running, maxSent,
                 arrival, launching>>

executorMessage(slaveId, frameworkId, executorId, data) ==
  /\ Serve("executorMessage",
           [slave_id |-> slaveId, framework_id |-> frameworkId,
            executor_id |-> executorId, data |-> data])
  /\ IF ~getFramework(frameworkId)
     THEN /\ out' = <<>>
          /\ stats' = [stats EXCEPT !.invalidFrameworkMessages = @ + 1]
     ELSE /\ out' = <<Send(frameworks[frameworkId].pid,
                           [type |-> "ExecutorToFramework", slave_id |-> slaveId,
                            framework_id |-> frameworkId,
                            executor_id |-> executorId, data |-> data])>>
          /\ stats' = [stats EXCEPT !.validFrameworkMessages = @ + 1]
  /\ UNCHANGED <<frameworks, master, id, timers, running, maxSent,
                 arrival, launching>>

\* An update that leaves the old endpoint in place.
setPidNothing(framework, pid) == framework

\* framework->pid = pid
setPid(framework, pid) == [framework EXCEPT !.pid = pid]

updateFramework(frameworkId, pid) ==
  /\ Serve("updateFramework", [framework_id |-> frameworkId, pid |-> pid])
  /\ frameworks' = IF getFramework(frameworkId)
                   THEN [frameworks EXCEPT ![frameworkId] = setPid(@, pid)]
                   ELSE frameworks
  /\ out' = <<>>
  /\ UNCHANGED <<master, id, stats, timers, running, maxSent,
                 arrival, launching>>

(* ------------------------ status-update pipeline ----------------------- *)

\* The StatusUpdate an executor delivers now.
ExecutorUpdate(frameworkId, executorId, taskId, state) ==
  [framework_id |-> frameworkId, executor_id |-> executorId, slave_id |-> id,
   status |-> [task_id |-> taskId, state |-> state],
   timestamp |-> Now, sequence |-> 0]

\* The terminal test with && between the comparisons: never true.
isTerminalConjoined(state) ==
  /\ state = "TASK_FINISHED"
  /\ state = "TASK_FAILED"
  /\ state = "TASK_KILLED"
  /\ state = "TASK_LOST"

\* The terminal test without its TASK_LOST comparison.
isTerminalNotLost(state) ==
  \/ state = "TASK_FINISHED"
  \/ state = "TASK_FAILED"
  \/ state = "TASK_KILLED"

\* The terminal test of Slave::statusUpdate.
isTerminal(state) ==
  \/ state = "TASK_FINISHED"
  \/ state = "TASK_FAILED"
  \/ state = "TASK_KILLED"
  \/ state = "TASK_LOST"

\* An accepted update that resends what was pending for the task, when
\* something was, instead of the update received.
statusUpdateLogPending(framework, updated, removed, update) ==
  <<Call("updateTaskState", updated.id, update.status.task_id),
    Send(master, StatusUpdateMessage(
           IF update.status.task_id \in DOMAIN framework.updates
           THEN framework.updates[update.status.task_id]
           ELSE update, TRUE)),
    Delay(update)>>

\* The handler log of an accepted status update, `updated` being the
\* executor after updateTaskState and `removed` after removeTask.
statusUpdateLog(framework, updated, removed, update) ==
  <<Call("updateTaskState", updated.id, update.status.task_id)>>
  \o (IF isTerminal(update.status.state)
      THEN <<Call("removeTask", removed.id, update.status.task_id)>>
           \o (IF removed.resources # updated.resources
               THEN <<Ledger(framework.id, removed.id, removed.resources)>>
               ELSE <<>>)
           \o <<ResourcesChanged(framework.id, removed)>>
      ELSE <<>>)
  \o <<Send(master, StatusUpdateMessage(update, TRUE)), Delay(update)>>

\* An invalid update counted as valid as well.
countInvalidBoth(st) ==
  [st EXCEPT !.invalidStatusUpdates = @ + 1, !.validStatusUpdates = @ + 1]

\* stats.invalidStatusUpdates++
countInvalid(st) == [st EXCEPT !.invalidStatusUpdates = @ + 1]

statusUpdate(update) ==
  LET status == update.status IN
  /\ Serve("statusUpdate", [update |-> update])
  /\ IF /\ getFramework(update.framework_id)
        /\ getExecutorOfTask(frameworks[update.framework_id], status.task_id) # {}
     THEN LET framework == frameworks[update.framework_id] IN
          \E executorId \in getExecutorOfTask(framework, status.task_id) :
            LET executor == framework.executors[executorId]
                updated == updateTaskState(executor, status.task_id, status.state)
                removed == IF isTerminal(status.state)
                           THEN removeTask(updated, status.task_id)
                           ELSE updated
            IN
            /\ frameworks' = [frameworks EXCEPT
                 ![update.framework_id].executors[executorId] = removed,
                 ![update.framework_id].updates = Put(@, status.task_id, update)]
            /\ out' = statusUpdateLog(framework, updated, removed, update)
            /\ timers' = timers \cup {update}
            /\ stats' = [stats EXCEPT !.tasks[status.state] = @ + 1,
                                      !.validStatusUpdates = @ + 1]
     ELSE /\ out' = <<>>
          /\ stats' = countInvalid(stats)
          /\ UNCHANGED <<frameworks, timers>>
  /\ maxSent' = SetMax(ReliableSent(out') \cup {maxSent}, maxSent)
  /\ UNCHANGED <<master, id, running, arrival, launching>>

\* An acknowledgement that erases nothing.
eraseUpdateNothing(updates, taskId) == updates

\* framework->updates.erase(taskId)
eraseUpdate(updates, taskId) == Erase(updates, taskId)

\* The updates an acknowledgement naming frameworkId and taskId can be the
\* master's answer to: those statusUpdate sent it reliably and whose retry is
\* still to come.  Each is given as a one-element set; the empty set stands
\* for an acknowledgement that answers none of them.
Acknowledged(frameworkId, taskId) ==
  LET sent == {u \in timers : /\ u.framework_id = frameworkId
                              /\ u.status.task_id = taskId}
  IN IF sent = {} THEN {{}} ELSE {{u} : u \in sent}

\* `answers` is the update the master acknowledges; the message carries only
\* the three ids and the handler never sees it.
statusUpdateAcknowledgement(slaveId, frameworkId, taskId) ==
  /\ \E answers \in Acknowledged(frameworkId, taskId) :
       Serve("statusUpdateAcknowledgement",
             [slave_id |-> slaveId, framework_id |-> frameworkId,
              task_id |-> taskId, answers |-> answers])
  /\ IF /\ getFramework(frameworkId)
        /\ taskId \in DOMAIN frameworks[frameworkId].updates
     THEN /\ frameworks' = [frameworks EXCEPT
                             ![frameworkId].updates = eraseUpdate(@, taskId)]
          /\ out' = <<Log("Got acknowledgement of status update")>>
     ELSE /\ out' = <<>>
          /\ UNCHANGED frameworks
  /\ UNCHANGED <<master, id, stats, timers, running, maxSent,
                 arrival, launching>>

\* The resend with the reliable flag left unset.
ResendMessageUnreliable(update) == StatusUpdateMessage(update, FALSE)

\* The message statusUpdateTimeout resends.
ResendMessage(update) == StatusUpdateMessage(update, TRUE)

\* A firing that leaves its timer armed.
firedRearmed(pending, update) == pending

\* A delayed dispatch fires once: statusUpdateTimeout does not call delay.
fired(pending, update) == pending \ {update}

\* The delayed self-dispatch statusUpdate armed, firing with its own copy of
\* the update.
statusUpdateTimeout(update) ==
  /\ update \in timers
  /\ Serve("statusUpdateTimeout", [update |-> update])
  /\ timers' = fired(timers, update)
  /\ out' = IF /\ getFramework(update.framework_id)
               /\ update.status.task_id \in
                    DOMAIN frameworks[update.framework_id].updates
            THEN <<Send(master, ResendMessage(update))>>
            ELSE <<>>
  /\ maxSent' = SetMax(ReliableSent(out') \cup {maxSent}, maxSent)
  /\ UNCHANGED <<frameworks, master, id, stats, running, arrival, launching>>

(* ------------------------ isolation callbacks -------------------------- *)

executorStarted(frameworkId, executorId) ==
  /\ Serve("executorStarted",
           [framework_id |-> frameworkId, executor_id |-> executorId])
  /\ out' = <<>>
  /\ UNCHANGED <<frameworks, master, id, stats, timers, running,
                 maxSent, arrival, launching>>

\* executorExited's test for removing the framework, left as it never holds.
lastExecutorNever(framework) == FALSE

\* executorExited removes the framework whose last executor went:
\* framework->executors.size() == 0.
lastExecutor(framework) == Cardinality(DOMAIN framework.executors) = 0

executorExited(frameworkId, executorId, status) ==
  /\ Serve("executorExited",
           [framework_id |-> frameworkId, executor_id |-> executorId,
            status |-> status])
  /\ IF /\ getFramework(frameworkId)
        /\ hasExecutor(frameworks[frameworkId], executorId)
     THEN LET framework == frameworks[frameworkId]
              executor == framework.executors[executorId]
              remaining == removeExecutor(framework, executor, FALSE)
          IN
          /\ frameworks' = IF lastExecutor(remaining)
                           THEN removeFramework(remaining)
                           ELSE Put(frameworks, frameworkId, remaining)
          /\ out' = <<Send(master,
                           [type |-> "ExitedExecutor", slave_id |-> id,
                            framework_id |-> frameworkId,
                            executor_id |-> executorId, status |-> status])>>
                    \o removeExecutorLog(framework, executor, FALSE)
          /\ arrival' = ClearArrival({<<frameworkId, executorId>>})
     ELSE /\ out' = <<>>
          /\ UNCHANGED <<frameworks, arrival>>
  /\ UNCHANGED <<master, id, stats, timers, running, maxSent, launching>>

\* The isolation module acts on a launchExecutor call: the executor's work
\* directory comes into being.
makeDirectory(directory) ==
  /\ running = "running"
  /\ last = NoEvent
  /\ directory \in launching
  /\ dirs' = dirs \cup {directory}
  /\ launching' = launching \ {directory}
  /\ UNCHANGED <<frameworks, master, id, stats, timers, running, clock,
                 maxSent, arrival, last, out>>

(* ------------------------------ shutdown ------------------------------- *)

\* TERMINATE in Slave::operator(): removeFramework on every framework of a
\* copy of the map, taken in `order`, each with its executors in `orders[f]`.
RECURSIVE terminateLog(_, _, _)
terminateLog(order, orders, n) ==
  IF n = 0 THEN <<>>
  ELSE terminateLog(order, orders, n - 1)
       \o removeFrameworkLog(frameworks[order[n]], killExecutorsDefault,
                             orders[order[n]],
                             Cardinality(DOMAIN frameworks[order[n]].executors))

terminate ==
  /\ Serve("terminate", <<>>)
  /\ \E order \in Orders(DOMAIN frameworks) :
       \E orders \in [DOMAIN frameworks -> UNION {Orders(S) : S \in SUBSET ExecutorIds}] :
         /\ \A f \in DOMAIN frameworks :
              orders[f] \in Orders(DOMAIN frameworks[f].executors)
         /\ out' = terminateLog(order, orders, Cardinality(DOMAIN frameworks))
                   \o <<Dispatch("terminate", <<>>)>>
  /\ frameworks' = EmptyMap
  /\ running' = "terminated"
  /\ arrival' = ClearArrival(DOMAIN arrival)
  /\ UNCHANGED <<master, id, stats, timers, maxSent, launching>>

(* ------------------------------- Next ---------------------------------- *)

Next ==
  \/ \E pid \in MasterPids : newMasterDetected(pid)
  \/ noMasterDetected
  \/ \E slaveId \in SlaveIds : registered(slaveId)
  \/ \E slaveId \in SlaveIds : reregistered(slaveId)
  \/ \E from \in MasterPids : exited(from)
  \/ \E from \in MasterPids : ping(from)
  \/ \E frameworkInfo \in FrameworkInfos, frameworkId \in FrameworkIds,
        pid \in {"s1"}, task \in TaskDescriptions :
       runTask(frameworkInfo, frameworkId, pid, task)
  \/ \E frameworkId \in FrameworkIds, executorId \in ExecutorIds,
        from \in ExecutorPids :
       registerExecutor(frameworkId, executorId, from)
  \/ \E frameworkId \in FrameworkIds, taskId \in TaskIds :
       killTask(frameworkId, taskId)
  \/ \E frameworkId \in FrameworkIds : killFramework(frameworkId)
  \/ \E frameworkId \in FrameworkIds, executorId \in ExecutorIds :
       schedulerMessage(id, frameworkId, executorId, "data")
  \/ \E frameworkId \in FrameworkIds, executorId \in ExecutorIds :
       executorMessage(id, frameworkId, executorId, "data")
  \/ \E frameworkId \in FrameworkIds, pid \in SchedulerPids :
       updateFramework(frameworkId, pid)
  \/ \E frameworkId \in FrameworkIds, executorId \in UpdateExecutorIds,
        taskId \in TaskIds, state \in ReportedStates :
       statusUpdate(ExecutorUpdate(frameworkId, executorId, taskId, state))
  \/ \E slaveId \in SlaveIds, frameworkId \in FrameworkIds, taskId \in TaskIds :
       statusUpdateAcknowledgement(slaveId, frameworkId, taskId)
  \/ \E update \in timers : statusUpdateTimeout(update)
  \/ \E frameworkId \in FrameworkIds, executorId \in ExecutorIds :
       executorStarted(frameworkId, executorId)
  \/ \E frameworkId \in FrameworkIds, executorId \in ExecutorIds,
        status \in ExitStatuses :
       executorExited(frameworkId, executorId, status)
  \/ terminate
  \/ loop

Spec == Init /\ [][Next]_vars

\* The slave together with the isolation module creating work directories.
NextWorkDir ==
  \/ Next
  \/ \E directory \in launching : makeDirectory(directory)

SpecWorkDir == Init /\ [][NextWorkDir]_vars

(* ======================== properties of the slave ====================== *)

Range(seq) == {seq[i] : i \in DOMAIN seq}
IsInjective(seq) == \A i, j \in DOMAIN seq : seq[i] = seq[j] => i = j

\* The messages a handler log sends to endpoint pid, in program order.
SentTo(o, pid) == SelectSeq(o, LAMBDA x : x.kind = "send" /\ x.to = pid)

\* A message reduced to its type, or to the task id for a RunTask.
MsgTag(m) == IF m.type = "RunTask" THEN m.task.task_id ELSE m.type
Tags(sends) == [i \in DOMAIN sends |-> MsgTag(sends[i].msg)]

\* Indices of the log entries of a kind.
Entries(o, kind) == {i \in DOMAIN o : o[i].kind = kind}

\* A registerExecutor that was not answered with Shutdown.
RegisteredStep(o) ==
  \E i \in Entries(o, "send") : o[i].msg.type = "ExecutorRegistered"

\* C1 (queue-then-drain): when RunTask(T1)..RunTask(Tk), distinct task ids,
\* arrived for an unregistered executor E and RegisterExecutor(F,E) follows,
\* the handler sends E's endpoint exactly ExecutorRegistered and then
\* RunTask(T1)..RunTask(Tk) in arrival order, and leaves queuedTasks(E)
\* empty and launchedTasks(E) = {T1..Tk} (handlers that ran to their end).
C1_QueueThenDrain ==
  [][(last'.name = "registerExecutor" /\ RegisteredStep(out')
      /\ running' = "running") =>
       LET f == last'.args.framework_id
           e == last'.args.executor_id
           arrived == arrival[<<f, e>>]
           before == frameworks[f].executors[e]
           after == frameworks'[f].executors[e]
       IN (IsInjective(arrived) /\ Range(arrived) = DOMAIN before.queuedTasks) =>
            /\ Tags(SentTo(out', last'.args.from)) = <<"ExecutorRegistered">> \o arrived
            /\ DOMAIN after.queuedTasks = {}
            /\ DOMAIN after.launchedTasks = Range(arrived)]_vars

RECURSIVE SumResources(_)
SumResources(tasks) ==
  IF DOMAIN tasks = {} THEN NoResources
  ELSE LET t == CHOOSE x \in DOMAIN tasks : TRUE
       IN ResAdd(tasks[t].resources, SumResources(Erase(tasks, t)))

\* C2 (resource ledger): between handlers every executor's resources equal
\* the component-wise sum of the resources of its launched tasks; queued
\* tasks contribute nothing.
C2_ResourceLedger ==
  \A f \in DOMAIN frameworks : \A e \in DOMAIN frameworks[f].executors :
    frameworks[f].executors[e].resources =
      SumResources(frameworks[f].executors[e].launchedTasks)

\* A terminal update has just taken a launched task off an executor that
\* still runs another one.
C2_Witness ==
  /\ last.name = "statusUpdate"
  /\ Entries(out, "ledger") # {}
  /\ \E f \in DOMAIN frameworks : \E e \in DOMAIN frameworks[f].executors :
       /\ DOMAIN frameworks[f].executors[e].launchedTasks # {}
       /\ frameworks[f].executors[e].resources # NoResources

\* C3 (pending-update retention): an accepted update stays in F.updates[t]
\* until StatusUpdateAcknowledgement(F,t) is handled; no executorExited,
\* RunTask, timer firing or master loss makes it disappear (KillFramework
\* and Terminate, which discard the framework itself, set aside).
C3_PendingUpdateRetention ==
  [][\A f \in DOMAIN frameworks : \A t \in DOMAIN frameworks[f].updates :
       \/ /\ last'.name = "statusUpdateAcknowledgement"
          /\ last'.args.framework_id = f
          /\ last'.args.task_id = t
       \/ last'.name = "killFramework" /\ last'.args.framework_id = f
       \/ last'.name = "terminate"
       \/ /\ f \in DOMAIN frameworks'
          /\ t \in DOMAIN frameworks'[f].updates]_vars

\* C4 (retry resends the stored update): a statusUpdateTimeout for task t of
\* framework F sends the master exactly one reliable StatusUpdate equal to
\* the update stored in F.updates[t] when F exists and has that entry, and
\* sends nothing otherwise.
C4_RetryResendsStored ==
  last.name = "statusUpdateTimeout" =>
    LET f == last.args.update.framework_id
        t == last.args.update.status.task_id
    IN IF f \in DOMAIN frameworks /\ t \in DOMAIN frameworks[f].updates
       THEN out = <<Send(master, StatusUpdateMessage(frameworks[f].updates[t], TRUE))>>
       ELSE out = <<>>

\* C5 (ack clears): after StatusUpdateAcknowledgement(slaveId, f, t), whatever
\* the slave id, f.updates has no entry for t; every other entry of every
\* framework, and the rest of the graph, is as before; an acknowledgement
\* for an unknown framework or a task without pending update changes nothing.
C5_AckClears ==
  [][last'.name = "statusUpdateAcknowledgement" =>
       LET f == last'.args.framework_id
           t == last'.args.task_id
       IN /\ DOMAIN frameworks' = DOMAIN frameworks
          /\ f \in DOMAIN frameworks' => t \notin DOMAIN frameworks'[f].updates
          /\ \A g \in DOMAIN frameworks :
               /\ frameworks'[g].executors = frameworks[g].executors
               /\ frameworks'[g].pid = frameworks[g].pid
               /\ DOMAIN frameworks'[g].updates \subseteq DOMAIN frameworks[g].updates
               /\ \A u \in DOMAIN frameworks[g].updates :
                    (g # f \/ u # t) =>
                      /\ u \in DOMAIN frameworks'[g].updates
                      /\ frameworks'[g].updates[u] = frameworks[g].updates[u]
          /\ (f \notin DOMAIN frameworks \/ t \notin DOMAIN frameworks[f].updates)
               => UNCHANGED <<frameworks, master, id, stats, timers, running>>]_vars

\* An acknowledgement has just erased the pending update of its task.
C5_Witness ==
  /\ last.name = "statusUpdateAcknowledgement"
  /\ Entries(out, "log") # {}
  /\ last.args.framework_id \in DOMAIN frameworks
  /\ last.args.task_id \notin DOMAIN frameworks[last.args.framework_id].updates
  /\ last.args.slave_id # id

\* The first log entry of a kind (0 when there is none).
First(o, kind) ==
  IF Entries(o, kind) = {} THEN 0
  ELSE CHOOSE i \in Entries(o, kind) : \A j \in Entries(o, kind) : i <= j

\* The status update of the step was accepted.
AcceptedUpdate(o) == Entries(o, "updateTaskState") # {}

\* C6 (terminal removal): an accepted StatusUpdate with state FINISHED,
\* FAILED, KILLED or LOST for task t removes t from the executor the handler
\* resolved for it, and subtracts its resources from that executor's ledger,
\* before the update is sent to the master; an accepted update with a
\* non-terminal state removes nothing and leaves t, when launched there, in
\* launchedTasks with the reported state.
C6_TerminalRemoval ==
  [][(last'.name = "statusUpdate" /\ AcceptedUpdate(out')) =>
       LET f == last'.args.update.framework_id
           t == last'.args.update.status.task_id
           st == last'.args.update.status.state
           e == out'[First(out', "updateTaskState")].executor_id
           before == frameworks[f].executors[e]
           after == frameworks'[f].executors[e]
       IN IF st \in TerminalStates
          THEN /\ t \notin DOMAIN after.launchedTasks
               /\ t \notin DOMAIN after.queuedTasks
               /\ after.resources =
                    IF t \in DOMAIN before.launchedTasks
                    THEN ResSub(before.resources, before.launchedTasks[t].resources)
                    ELSE before.resources
               /\ First(out', "removeTask") > 0
               /\ First(out', "removeTask") < First(out', "send")
               /\ (t \in DOMAIN before.launchedTasks =>
                     /\ First(out', "ledger") > 0
                     /\ First(out', "ledger") < First(out', "send"))
          ELSE /\ DOMAIN after.launchedTasks = DOMAIN before.launchedTasks
               /\ after.queuedTasks = before.queuedTasks
               /\ after.resources = before.resources
               /\ t \in DOMAIN before.launchedTasks =>
                    after.launchedTasks[t].state = st]_vars

\* A terminal update has just removed a launched task, ledger included.
C6_Witness ==
  /\ last.name = "statusUpdate"
  /\ last.args.update.status.state \in TerminalStates
  /\ First(out, "removeTask") > 0
  /\ First(out, "ledger") > 0
  /\ First(out, "send") > First(out, "ledger")

\* C7 as claimed (update ordering): over all reliable StatusUpdate sends to
\* the master, first transmissions and retransmissions alike, no update is
\* sent after an update the agent received later.
C7_UpdateOrdering ==
  [][\A ts \in ReliableSent(out') : ts >= maxSent]_vars

\* C7 as amended: every accepted status update is sent to the master once, in
\* its own handler and after the first transmission of every update received
\* before it, so first transmissions leave in the order of receipt; a
\* timer-driven retransmission may follow the sends of later updates.
C7_FirstTransmissionOrder ==
  [][(last'.name = "statusUpdate" /\ AcceptedUpdate(out')) =>
       /\ ReliableSent(out') = {last'.args.update.timestamp}
       /\ Cardinality(Entries(out', "send")) = 1
       /\ \A ts \in ReliableSent(out') : ts > maxSent]_vars

\* A second update of a task has just been sent while the first is pending.
C7_Witness ==
  /\ last.name = "statusUpdate"
  /\ AcceptedUpdate(out)
  /\ last.args.update.timestamp > 0
  /\ maxSent = last.args.update.timestamp
  /\ \E u \in timers :
       /\ u.timestamp < maxSent
       /\ u.framework_id = last.args.update.framework_id
       /\ u.status.task_id = last.args.update.status.task_id

\* The resourcesChanged dispatches for executor (f, e) after log index i.
ChangedAfter(o, f, e, i) ==
  {j \in Entries(o, "dispatch") :
     /\ j > i
     /\ o[j].call = "resourcesChanged"
     /\ o[j].args.framework_id = f
     /\ o[j].args.executor_id = e}

\* C8 (resource notification): in runTask, registerExecutor, killTask and
\* statusUpdate every change to an executor's resource total is followed,
\* later in the same handler, by exactly one resourcesChanged dispatch for
\* that executor (handlers that ran to their end).
C8_ResourceNotification ==
  (/\ last.name \in {"runTask", "registerExecutor", "killTask", "statusUpdate"}
   /\ running = "running") =>
    \A i \in Entries(out, "ledger") :
      Cardinality(ChangedAfter(out, out[i].framework_id, out[i].executor_id, i)) = 1

\* The launched tasks of the graph, counted from the graph itself.
LaunchedCount ==
  Cardinality({x \in (DOMAIN frameworks) \X ExecutorIds \X TaskIds :
                 /\ x[2] \in DOMAIN frameworks[x[1]].executors
                 /\ x[3] \in DOMAIN frameworks[x[1]].executors[x[2]].launchedTasks})

C10_FrameworkRetention ==
  [][\A f \in DOMAIN frameworks :
       (/\ DOMAIN frameworks[f].updates # {}
        /\ last'.name \notin {"killFramework", "terminate"})
         => f \in DOMAIN frameworks']_vars

\* The executors of the graph, as <<framework id, executor id>> pairs.
ExecutorKeys(fs) ==
  {x \in (DOMAIN fs) \X ExecutorIds : x[2] \in DOMAIN fs[x[1]].executors}

\* Log entries that are dispatches of `call` to the isolation module.
Dispatched(o, call) == {i \in Entries(o, "dispatch") : o[i].call = call}

\* Log entries that send a message of type `type`.
SentType(o, type) == {i \in Entries(o, "send") : o[i].msg.type = type}

\* C11 (queued and launched disjoint): in every reachable state the key sets
\* of queuedTasks and launchedTasks of every executor are disjoint, and a task
\* that is queued on an executor before a step and launched on it after the
\* step made that move in the handler of a successful RegisterExecutor of
\* that executor.
C11_QueuedLaunchedDisjoint ==
  /\ [](\A k \in ExecutorKeys(frameworks) :
          LET executor == frameworks[k[1]].executors[k[2]] IN
          (DOMAIN executor.queuedTasks) \cap (DOMAIN executor.launchedTasks) = {})
  /\ [][\A k \in ExecutorKeys(frameworks) \cap ExecutorKeys(frameworks') :
          \A t \in DOMAIN frameworks[k[1]].executors[k[2]].queuedTasks :
            t \in DOMAIN frameworks'[k[1]].executors[k[2]].launchedTasks =>
              /\ last'.name = "registerExecutor"
              /\ last'.args.framework_id = k[1]
              /\ last'.args.executor_id = k[2]
              /\ RegisteredStep(out')
              /\ t \notin DOMAIN frameworks'[k[1]].executors[k[2]].queuedTasks]_vars

\* A registration has just moved two queued tasks to launchedTasks.
C11_Witness ==
  /\ last.name = "registerExecutor"
  /\ RegisteredStep(out)
  /\ running = "running"
  /\ \E k \in ExecutorKeys(frameworks) :
       /\ k = <<last.args.framework_id, last.args.executor_id>>
       /\ Cardinality(DOMAIN frameworks[k[1]].executors[k[2]].launchedTasks) = 2
       /\ DOMAIN frameworks[k[1]].executors[k[2]].queuedTasks = {}

\* The executor a RunTask is for: the one the task nominates, else the
\* default executor of the framework.
TargetExecutor(fs, frameworkId, task) ==
  IF task.has_executor THEN task.executor.executor_id
  ELSE fs[frameworkId].info.executor.executor_id

\* C12 (executor launch on RunTask): a RunTask whose target executor has no
\* record creates the framework if unknown and exactly one executor record,
\* unregistered, holding just that task in queuedTasks, and the handler
\* dispatches launchExecutor once and sends nothing; a RunTask for an
\* executor that has a record and no endpoint only inserts the task into its
\* queuedTasks, with an empty handler log.  Every step dispatches as many
\* launchExecutor calls as it creates executor records.
C12_LaunchOnRunTask ==
  [][/\ Cardinality(Dispatched(out', "launchExecutor")) =
          Cardinality(ExecutorKeys(frameworks') \ ExecutorKeys(frameworks))
     /\ last'.name = "runTask" =>
          LET f == last'.args.framework_id
              task == last'.args.task
              e == TargetExecutor(frameworks', f, task)
          IN /\ f \in DOMAIN frameworks'
             /\ <<f, e>> \notin ExecutorKeys(frameworks) =>
                  /\ ExecutorKeys(frameworks') = ExecutorKeys(frameworks) \cup {<<f, e>>}
                  /\ DOMAIN frameworks' = DOMAIN frameworks \cup {f}
                  /\ frameworks'[f].executors[e].pid = NoPid
                  /\ frameworks'[f].executors[e].queuedTasks = Put(EmptyMap, task.task_id, task)
                  /\ frameworks'[f].executors[e].launchedTasks = EmptyMap
                  /\ Len(out') = 1
                  /\ Dispatched(out', "launchExecutor") = {1}
                  /\ out'[1].args.framework_id = f
                  /\ out'[1].args.executor.executor_id = e
                  /\ \A k \in ExecutorKeys(frameworks) :
                       frameworks'[k[1]].executors[k[2]] = frameworks[k[1]].executors[k[2]]
             /\ (<<f, e>> \in ExecutorKeys(frameworks)
                 /\ frameworks[f].executors[e].pid = NoPid) =>
                  /\ out' = <<>>
                  /\ frameworks' =
                       [frameworks EXCEPT ![f].executors[e].queuedTasks =
                                            Put(@, task.task_id, task)]]_vars

\* A second RunTask has just been queued on an executor still starting up.
C12_Witness ==
  /\ last.name = "runTask"
  /\ out = <<>>
  /\ \E k \in ExecutorKeys(frameworks) :
       /\ k[1] = last.args.framework_id
       /\ k[2] = TargetExecutor(frameworks, k[1], last.args.task)
       /\ frameworks[k[1]].executors[k[2]].pid = NoPid
       /\ Cardinality(DOMAIN frameworks[k[1]].executors[k[2]].queuedTasks) = 2

\* A RegisterExecutor the agent has to reject: the framework is unknown, the
\* executor id is unknown in it, or the executor has an endpoint already.
Rejectable(frameworkId, executorId) ==
  \/ frameworkId \notin DOMAIN frameworks
  \/ executorId \notin DOMAIN frameworks[frameworkId].executors
  \/ frameworks[frameworkId].executors[executorId].pid # NoPid

\* C13 (RegisterExecutor rejection): a RegisterExecutor(F,E) for an unknown
\* framework, an executor id unknown in F or an executor that already has an
\* endpoint makes the handler send one Shutdown to the sender and do nothing
\* else, and leaves the whole agent state as it was; the endpoint of a
\* registered executor is never overwritten.
C13_RegisterRejection ==
  [][/\ (/\ last'.name = "registerExecutor"
         /\ Rejectable(last'.args.framework_id, last'.args.executor_id)) =>
          /\ out' = <<Send(last'.args.from, ShutdownMessage)>>
          /\ UNCHANGED <<frameworks, master, id, stats, timers, running>>
     /\ \A k \in ExecutorKeys(frameworks) \cap ExecutorKeys(frameworks') :
          frameworks[k[1]].executors[k[2]].pid # NoPid =>
            frameworks'[k[1]].executors[k[2]].pid =
              frameworks[k[1]].executors[k[2]].pid]_vars

\* A second registration for a registered executor, from another endpoint,
\* has just been answered with Shutdown.
C13_Witness ==
  /\ last.name = "registerExecutor"
  /\ SentType(out, "Shutdown") # {}
  /\ \E k \in ExecutorKeys(frameworks) :
       /\ k = <<last.args.framework_id, last.args.executor_id>>
       /\ frameworks[k[1]].executors[k[2]].pid \notin {NoPid, last.args.from}

\* The task ids of the RunTask messages a handler log sends.
RunTaskIds(o) == {o[i].msg.task.task_id : i \in SentType(o, "RunTask")}

\* The executors of framework f holding task t, queued or launched.
Holders(f, t) ==
  IF f \in DOMAIN frameworks THEN getExecutorOfTask(frameworks[f], t) ELSE {}

\* C14 (KillTask on a not-yet-registered executor): when KillTask(F,t) finds
\* t in an executor of F without endpoint, the handler removes t from that
\* executor, dispatches one resourcesChanged for it, sends the master one
\* StatusUpdate with state TASK_KILLED and reliable=false and sends nothing
\* else.  A registration forwards RunTask only for tasks in queuedTasks, and
\* only a RunTask of t puts t into a queue, so a later registration of that
\* executor does not forward RunTask(t).
C14_KillTaskUnregistered ==
  [][/\ (/\ last'.name = "killTask"
         /\ Holders(last'.args.framework_id, last'.args.task_id) # {}
         /\ \A e \in Holders(last'.args.framework_id, last'.args.task_id) :
              frameworks[last'.args.framework_id].executors[e].pid = NoPid) =>
          LET f == last'.args.framework_id
              t == last'.args.task_id
              i == First(out', "removeTask")
              e == out'[i].executor_id
              after == frameworks'[f].executors[e]
          IN /\ i > 0
             /\ e \in Holders(f, t)
             /\ t \notin DOMAIN after.queuedTasks
             /\ t \notin DOMAIN after.launchedTasks
             /\ after = removeTask(frameworks[f].executors[e], t)
             /\ Cardinality(Entries(out', "dispatch")) = 1
             /\ Cardinality(ChangedAfter(out', f, e, i)) = 1
             /\ \A j \in ChangedAfter(out', f, e, i) :
                  out'[j].args.resources = after.resources
             /\ Cardinality(Entries(out', "send")) = 1
             /\ \A j \in Entries(out', "send") :
                  /\ out'[j].to = master
                  /\ out'[j].msg.type = "StatusUpdate"
                  /\ out'[j].msg.reliable = FALSE
                  /\ out'[j].msg.update.framework_id = f
                  /\ out'[j].msg.update.status = [task_id |-> t, state |-> "TASK_KILLED"]
     /\ (last'.name = "registerExecutor" /\ RegisteredStep(out')) =>
          RunTaskIds(out') \subseteq
            DOMAIN frameworks[last'.args.framework_id]
                     .executors[last'.args.executor_id].queuedTasks
     /\ \A k \in ExecutorKeys(frameworks') :
          \A t \in DOMAIN frameworks'[k[1]].executors[k[2]].queuedTasks :
            (k \in ExecutorKeys(frameworks) =>
               t \notin DOMAIN frameworks[k[1]].executors[k[2]].queuedTasks) =>
              /\ last'.name = "runTask"
              /\ last'.args.task.task_id = t]_vars

\* A KillTask has just taken one of two queued tasks off an executor that
\* is still starting up.
C14_Witness ==
  /\ last.name = "killTask"
  /\ First(out, "removeTask") > 0
  /\ \E j \in SentType(out, "StatusUpdate") :
       out[j].msg.update.status.state = "TASK_KILLED"
  /\ \E k \in ExecutorKeys(frameworks) :
       /\ k = <<last.args.framework_id, out[First(out, "removeTask")].executor_id>>
       /\ frameworks[k[1]].executors[k[2]].pid = NoPid
       /\ DOMAIN frameworks[k[1]].executors[k[2]].queuedTasks =
            TaskIds \ {last.args.task_id}

\* C15 (KillTask on unknown target): a KillTask(F,t) where F is unknown, or
\* where no executor of F has t queued or launched, makes the handler send
\* the master one StatusUpdate with state TASK_LOST and reliable=false, send
\* nothing to any executor, dispatch nothing to the isolation module and
\* leave the agent state as it was.
C15_KillTaskUnknown ==
  [][(/\ last'.name = "killTask"
      /\ Holders(last'.args.framework_id, last'.args.task_id) = {}) =>
       /\ Len(out') = 1
       /\ out'[1].kind = "send"
       /\ out'[1].to = master
       /\ out'[1].msg.type = "StatusUpdate"
       /\ out'[1].msg.reliable = FALSE
       /\ out'[1].msg.update.framework_id = last'.args.framework_id
       /\ out'[1].msg.update.status =
            [task_id |-> last'.args.task_id, state |-> "TASK_LOST"]
       /\ UNCHANGED <<frameworks, master, id, stats, timers, running>>]_vars

\* A KillTask for a task unknown in a known framework has just been answered
\* with TASK_LOST.
C15_Witness ==
  /\ last.name = "killTask"
  /\ last.args.framework_id \in DOMAIN frameworks
  /\ Len(out) = 1
  /\ out[1].kind = "send"
  /\ out[1].msg.type = "StatusUpdate"
  /\ out[1].msg.update.status.state = "TASK_LOST"

\* C16 (fabricated updates bypass the retry pipeline): a KillTask step
\* leaves every framework's updates map and the set of armed
\* statusUpdateTimeout timers as they were and schedules nothing; a
\* StatusUpdate sent with reliable=false is sent by killTask only, and the
\* StatusUpdates sent for an executor's update, by statusUpdate and by
\* statusUpdateTimeout, carry reliable=true.
C16_FabricatedBypassRetry ==
  [][/\ last'.name = "killTask" =>
          /\ DOMAIN frameworks' = DOMAIN frameworks
          /\ \A f \in DOMAIN frameworks :
               frameworks'[f].updates = frameworks[f].updates
          /\ timers' = timers
          /\ Entries(out', "delay") = {}
     /\ \A j \in SentType(out', "StatusUpdate") :
          /\ out'[j].msg.reliable = FALSE => last'.name = "killTask"
          /\ last'.name \in {"statusUpdate", "statusUpdateTimeout"} =>
               out'[j].msg.reliable = TRUE]_vars

\* A KillTask has just sent a fabricated update while an executor's update
\* is pending with its timer armed.
C16_Witness ==
  /\ last.name = "killTask"
  /\ \E j \in SentType(out, "StatusUpdate") : out[j].msg.reliable = FALSE
  /\ timers # {}
  /\ \E f \in DOMAIN frameworks : DOMAIN frameworks[f].updates # {}

\* C17 (KillTask on a registered executor): when KillTask(F,t) finds t in an
\* executor with an endpoint, the handler sends that endpoint one
\* KillTask(F,t), sends no StatusUpdate, dispatches nothing and changes no
\* state; a task launched on a registered executor stays in launchedTasks,
\* with its resources, in every step that is neither a terminal StatusUpdate
\* for it nor the removal of the executor.
C17_KillTaskRegistered ==
  [][/\ (/\ last'.name = "killTask"
         /\ Holders(last'.args.framework_id, last'.args.task_id) # {}
         /\ \A e \in Holders(last'.args.framework_id, last'.args.task_id) :
              frameworks[last'.args.framework_id].executors[e].pid # NoPid) =>
          /\ Len(out') = 1
          /\ out'[1].kind = "send"
          /\ out'[1].to \in
               {frameworks[last'.args.framework_id].executors[e].pid :
                  e \in Holders(last'.args.framework_id, last'.args.task_id)}
          /\ out'[1].msg = [type |-> "KillTask",
                            framework_id |-> last'.args.framework_id,
                            task_id |-> last'.args.task_id]
          /\ UNCHANGED <<frameworks, master, id, stats, timers, running>>
     /\ \A k \in ExecutorKeys(frameworks) :
          \A t \in DOMAIN frameworks[k[1]].executors[k[2]].launchedTasks :
            \/ k \notin ExecutorKeys(frameworks')
            \/ /\ last'.name = "statusUpdate"
               /\ last'.args.update.framework_id = k[1]
               /\ last'.args.update.status.task_id = t
               /\ last'.args.update.status.state \in TerminalStates
            \/ /\ t \in DOMAIN frameworks'[k[1]].executors[k[2]].launchedTasks
               /\ frameworks'[k[1]].executors[k[2]].launchedTasks[t].resources =
                    frameworks[k[1]].executors[k[2]].launchedTasks[t].resources]_vars

\* A KillTask has just been forwarded to the executor running the task.
C17_Witness ==
  /\ last.name = "killTask"
  /\ SentType(out, "KillTask") # {}
  /\ \E k \in ExecutorKeys(frameworks) :
       /\ k[1] = last.args.framework_id
       /\ last.args.task_id \in DOMAIN frameworks[k[1]].executors[k[2]].launchedTasks
       /\ frameworks[k[1]].executors[k[2]].pid = out[1].to

\* C18 (StatusUpdate acceptance): a StatusUpdate is counted invalid only if
\* the framework id or the executor id it carries names no record; when both
\* the framework and the executor named in the update exist the update is
\* sent to the master with reliable=true, stored in updates and counted in
\* validStatusUpdates, whether or not its task is queued or launched there.
C18_AcceptanceByExecutorId ==
  [][last'.name = "statusUpdate" =>
       LET update == last'.args.update
           f == update.framework_id
           known == /\ f \in DOMAIN frameworks
                    /\ update.executor_id \in DOMAIN frameworks[f].executors
       IN /\ stats'.invalidStatusUpdates # stats.invalidStatusUpdates => ~known
          /\ known =>
               /\ stats'.validStatusUpdates = stats.validStatusUpdates + 1
               /\ \E j \in SentType(out', "StatusUpdate") :
                    /\ out'[j].to = master
                    /\ out'[j].msg = StatusUpdateMessage(update, TRUE)
               /\ f \in DOMAIN frameworks'
               /\ update.status.task_id \in DOMAIN frameworks'[f].updates
               /\ frameworks'[f].updates[update.status.task_id] = update]_vars

\* C19 (status update counters): every handled StatusUpdate increments
\* exactly one of validStatusUpdates and invalidStatusUpdates, by one; an
\* update counted invalid sends nothing, schedules no timer, dispatches
\* nothing and leaves the framework/executor/task graph, every updates map
\* and the per-state task counters as they were.
C19_UpdateCounters ==
  [][last'.name = "statusUpdate" =>
       /\ \/ /\ stats'.validStatusUpdates = stats.validStatusUpdates + 1
             /\ stats'.invalidStatusUpdates = stats.invalidStatusUpdates
          \/ /\ stats'.validStatusUpdates = stats.validStatusUpdates
             /\ stats'.invalidStatusUpdates = stats.invalidStatusUpdates + 1
       /\ stats'.invalidStatusUpdates # stats.invalidStatusUpdates =>
            /\ out' = <<>>
            /\ timers' = timers
            /\ frameworks' = frameworks
            /\ stats'.tasks = stats.tasks]_vars

\* An update for a task no executor holds has just been counted invalid in a
\* framework that has an update pending.
C19_Witness ==
  /\ last.name = "statusUpdate"
  /\ out = <<>>
  /\ stats.invalidStatusUpdates = 1
  /\ stats.validStatusUpdates = 1
  /\ last.args.update.framework_id \in DOMAIN frameworks
  /\ DOMAIN frameworks[last.args.update.framework_id].updates # {}

\* C20 (executorExited): executorExited(F,E,status) for a known executor
\* sends the master one ExitedExecutor(slaveId,F,E,status) and nothing else
\* (no Shutdown, no killExecutor), removes E's record with its tasks and
\* removes framework F if and only if F has no executor left, leaving the
\* rest of the graph as it was; for an unknown framework or executor it
\* sends nothing and changes nothing.
C20_ExecutorExited ==
  [][last'.name = "executorExited" =>
       LET f == last'.args.framework_id
           e == last'.args.executor_id
       IN IF <<f, e>> \in ExecutorKeys(frameworks)
          THEN /\ out' = <<Send(master,
                                [type |-> "ExitedExecutor", slave_id |-> id,
                                 framework_id |-> f, executor_id |-> e,
                                 status |-> last'.args.status])>>
               /\ ExecutorKeys(frameworks') = ExecutorKeys(frameworks) \ {<<f, e>>}
               /\ f \in DOMAIN frameworks' <=>
                    DOMAIN frameworks[f].executors # {e}
               /\ DOMAIN frameworks' \cup {f} = DOMAIN frameworks
               /\ \A g \in DOMAIN frameworks' :
                    frameworks'[g] =
                      IF g = f
                      THEN [frameworks[f] EXCEPT !.executors = Erase(@, e)]
                      ELSE frameworks[g]
               /\ UNCHANGED <<master, id, stats, timers, running>>
          ELSE /\ out' = <<>>
               /\ UNCHANGED <<frameworks, master, id, stats, timers, running>>]_vars

\* An executor holding a task has just exited while its framework keeps
\* another executor.
C20_Witness ==
  /\ last.name = "executorExited"
  /\ SentType(out, "ExitedExecutor") # {}
  /\ last.args.framework_id \in DOMAIN frameworks
  /\ last.args.executor_id \notin DOMAIN frameworks[last.args.framework_id].executors
  /\ DOMAIN frameworks[last.args.framework_id].executors # {}

\* C21 (KillFramework): KillFramework(F) for a known framework leaves F out
\* of the framework map, with its executors, tasks and pending updates, after
\* sending one Shutdown and dispatching one killExecutor for each executor F
\* had and nothing else; the other frameworks are as before; for an unknown F
\* nothing is sent and nothing changes.  A framework enters the map only in
\* a RunTask for it, and a RegisterExecutor for a framework that is not in
\* the map is answered with Shutdown.
C21_KillFramework ==
  [][/\ last'.name = "killFramework" =>
          LET f == last'.args.framework_id IN
          IF f \in DOMAIN frameworks
          THEN /\ frameworks' = Erase(frameworks, f)
               /\ Len(out') = 2 * Cardinality(DOMAIN frameworks[f].executors)
               /\ \A e \in DOMAIN frameworks[f].executors :
                    /\ Cardinality({i \in SentType(out', "Shutdown") :
                                      out'[i].to = frameworks[f].executors[e].pid}) =
                         Cardinality({x \in DOMAIN frameworks[f].executors :
                                        frameworks[f].executors[x].pid =
                                          frameworks[f].executors[e].pid})
                    /\ Cardinality({i \in Dispatched(out', "killExecutor") :
                                      out'[i].args = [framework_id |-> f,
                                                      executor_id |-> e]}) = 1
               /\ Cardinality(SentType(out', "Shutdown")) =
                    Cardinality(DOMAIN frameworks[f].executors)
               /\ UNCHANGED <<master, id, stats, timers, running>>
          ELSE /\ out' = <<>>
               /\ UNCHANGED <<frameworks, master, id, stats, timers, running>>
     /\ \A f \in DOMAIN frameworks' \ DOMAIN frameworks :
          last'.name = "runTask" /\ last'.args.framework_id = f
     /\ (/\ last'.name = "registerExecutor"
         /\ last'.args.framework_id \notin DOMAIN frameworks) =>
          out' = <<Send(last'.args.from, ShutdownMessage)>>]_vars

\* A framework with two executors has just been killed.
C21_Witness ==
  /\ last.name = "killFramework"
  /\ last.args.framework_id \notin DOMAIN frameworks
  /\ Cardinality(SentType(out, "Shutdown")) = 2
  /\ Cardinality(Dispatched(out, "killExecutor")) = 2

\* The reliable StatusUpdate sends of a handler log.
ReliableEntries(o) == {i \in SentType(o, "StatusUpdate") : o[i].msg.reliable}

\* C22 (no re-arm): an accepted StatusUpdate is sent once and schedules one
\* statusUpdateTimeout, for an update no earlier timer carries; a firing
\* consumes its timer, schedules none and sends its update at most once; no
\* other step arms a timer or sends a reliable update.  So every accepted
\* update is transmitted at most twice.
C22_NoRearm ==
  [][IF last'.name = "statusUpdate" /\ AcceptedUpdate(out')
     THEN LET update == last'.args.update IN
          /\ Cardinality(Entries(out', "delay")) = 1
          /\ \A i \in Entries(out', "delay") : out'[i].update = update
          /\ Cardinality(ReliableEntries(out')) = 1
          /\ \A i \in ReliableEntries(out') : out'[i].msg.update = update
          /\ update \notin timers
          /\ \A u \in timers : u.timestamp < update.timestamp
          /\ maxSent < update.timestamp
          /\ timers' = timers \cup {update}
     ELSE IF last'.name = "statusUpdateTimeout"
     THEN LET update == last'.args.update IN
          /\ Entries(out', "delay") = {}
          /\ update \in timers
          /\ timers' = timers \ {update}
          /\ Cardinality(ReliableEntries(out')) <= 1
          /\ \A i \in ReliableEntries(out') : out'[i].msg.update = update
     ELSE /\ Entries(out', "delay") = {}
          /\ ReliableEntries(out') = {}
          /\ timers' = timers]_vars

\* A timer has just fired and resent its update, which is still
\* unacknowledged, and no timer is left.
C22_Witness ==
  /\ last.name = "statusUpdateTimeout"
  /\ Cardinality(ReliableEntries(out)) = 1
  /\ timers = {}
  /\ \E f \in DOMAIN frameworks :
       /\ f = last.args.update.framework_id
       /\ last.args.update.status.task_id \in DOMAIN frameworks[f].updates

\* C23 (master link): NewMasterDetected(pid) makes pid the current master and
\* sends it one message and nothing else: RegisterSlave(info) when the slave
\* id is empty, otherwise ReregisterSlave with the current slave id and info;
\* no framework, executor, task or pending update changes.
C23_MasterLink ==
  [][last'.name = "newMasterDetected" =>
       /\ master' = last'.args.pid
       /\ Len(out') = 1
       /\ out'[1].kind = "send"
       /\ out'[1].to = last'.args.pid
       /\ IF id = NoSlaveId
          THEN out'[1].msg = [type |-> "RegisterSlave", slave |-> info]
          ELSE /\ out'[1].msg.type = "ReregisterSlave"
               /\ out'[1].msg.slave_id = id
               /\ out'[1].msg.slave = info
       /\ UNCHANGED <<frameworks, id, stats, timers, running>>]_vars

\* A slave that has an id, a framework and a pending update has just
\* re-registered with a newly detected master.
C23_Witness ==
  /\ last.name = "newMasterDetected"
  /\ master = last.args.pid
  /\ id # NoSlaveId
  /\ Len(out) = 1
  /\ out[1].msg.type = "ReregisterSlave"
  /\ \E f \in DOMAIN frameworks : DOMAIN frameworks[f].updates # {}

\* C24 (slave id stability): once the slave id is non-empty no step changes
\* it, whatever NewMasterDetected, SlaveRegistered and SlaveReregistered
\* messages arrive; a later SlaveRegistered with another id does not replace
\* it.
C24_SlaveIdStable ==
  [][id # NoSlaveId => id' = id]_vars

\* C25 (framework-to-executor data message): the message is forwarded, with
\* its slave id, framework id, executor id and data, to the executor's
\* endpoint and validFrameworkMessages goes up by one exactly when the
\* framework exists, the executor exists and the executor has an endpoint;
\* otherwise nothing is sent and invalidFrameworkMessages goes up by one; the
\* graph is unchanged either way.
C25_SchedulerMessage ==
  [][last'.name = "schedulerMessage" =>
       LET f == last'.args.framework_id
           e == last'.args.executor_id
       IN /\ IF /\ <<f, e>> \in ExecutorKeys(frameworks)
                /\ frameworks[f].executors[e].pid # NoPid
             THEN /\ out' = <<Send(frameworks[f].executors[e].pid,
                                   [type |-> "FrameworkToExecutor",
                                    slave_id |-> last'.args.slave_id,
                                    framework_id |-> f, executor_id |-> e,
                                    data |-> last'.args.data])>>
                  /\ stats' = [stats EXCEPT !.validFrameworkMessages = @ + 1]
             ELSE /\ out' = <<>>
                  /\ stats' = [stats EXCEPT !.invalidFrameworkMessages = @ + 1]
          /\ UNCHANGED <<frameworks, master, id, timers, running>>]_vars

\* A data message has just been dropped at an executor that exists and has
\* not registered.
C25_Witness ==
  /\ last.name = "schedulerMessage"
  /\ out = <<>>
  /\ stats.invalidFrameworkMessages = 1
  /\ <<last.args.framework_id, last.args.executor_id>> \in ExecutorKeys(frameworks)

\* C26 (executor-to-framework data message): an ExecutorToFramework message
\* whose framework is unknown, whose executor id names no executor of the
\* framework or whose executor has no endpoint yet is dropped: nothing is
\* sent and invalidFrameworkMessages goes up by one.
C26_ExecutorMessageDropped ==
  [][(/\ last'.name = "executorMessage"
      /\ \/ <<last'.args.framework_id, last'.args.executor_id>>
              \notin ExecutorKeys(frameworks)
         \/ frameworks[last'.args.framework_id]
              .executors[last'.args.executor_id].pid = NoPid) =>
       /\ Entries(out', "send") = {}
       /\ stats'.invalidFrameworkMessages = stats.invalidFrameworkMessages + 1
       /\ stats'.validFrameworkMessages = stats.validFrameworkMessages]_vars

\* C27 (UpdateFramework): UpdateFramework(F,pid) for a known framework
\* changes F's scheduler endpoint to pid and nothing else, and for an unknown
\* framework changes nothing; every RunTask forwarded to an executor carries
\* the endpoint stored for its framework and every executor-to-framework
\* forward goes to it; no other step, a RunTask for a known framework
\* included, changes a framework's stored endpoint or descriptor.
C27_UpdateFramework ==
  [][/\ last'.name = "updateFramework" =>
          /\ frameworks' =
               IF last'.args.framework_id \in DOMAIN frameworks
               THEN [frameworks EXCEPT ![last'.args.framework_id].pid = last'.args.pid]
               ELSE frameworks
          /\ out' = <<>>
          /\ UNCHANGED <<master, id, stats, timers, running>>
     /\ \A i \in SentType(out', "RunTask") :
          /\ out'[i].msg.framework_id \in DOMAIN frameworks'
          /\ out'[i].msg.pid = frameworks'[out'[i].msg.framework_id].pid
          /\ out'[i].msg.framework = frameworks'[out'[i].msg.framework_id].info
     /\ \A i \in SentType(out', "ExecutorToFramework") :
          out'[i].to = frameworks'[out'[i].msg.framework_id].pid
     /\ \A f \in DOMAIN frameworks \cap DOMAIN frameworks' :
          /\ frameworks'[f].info = frameworks[f].info
          /\ frameworks'[f].pid # frameworks[f].pid =>
               /\ last'.name = "updateFramework"
               /\ last'.args.framework_id = f]_vars

\* A RunTask naming one scheduler endpoint has just been forwarded with the
\* endpoint an earlier UpdateFramework stored.
C27_Witness ==
  /\ last.name = "runTask"
  /\ \E i \in SentType(out, "RunTask") :
       /\ out[i].msg.pid # last.args.pid
       /\ out[i].msg.pid = frameworks[last.args.framework_id].pid

\* C28 (graceful shutdown): on Terminate every framework present is removed,
\* so the framework map is empty afterwards, and every executor that existed
\* has had one killExecutor dispatched; the isolation module is terminated
\* once, after all those dispatches, and the agent handles no message after
\* it has left its loop.
C28_GracefulShutdown ==
  [][/\ last'.name = "terminate" =>
          /\ frameworks' = EmptyMap
          /\ running' = "terminated"
          /\ \A k \in ExecutorKeys(frameworks) :
               Cardinality({i \in Dispatched(out', "killExecutor") :
                              out'[i].args = [framework_id |-> k[1],
                                              executor_id |-> k[2]]}) = 1
          /\ Cardinality(Dispatched(out', "killExecutor")) =
               Cardinality(ExecutorKeys(frameworks))
          /\ Dispatched(out', "terminate") = {Len(out')}
     /\ running = "terminated" => last'.name = NoEvent.name]_vars

\* The agent has just terminated with two executors to kill.
C28_Witness ==
  /\ last.name = "terminate"
  /\ running = "terminated"
  /\ frameworks = EmptyMap
  /\ Cardinality(Dispatched(out, "killExecutor")) = 2

\* The work directories of the executor records of the graph.
Directories(fs) ==
  {fs[k[1]].executors[k[2]].directory : k \in ExecutorKeys(fs)}

\* C29 (work-directory uniqueness): the directory a new executor record gets
\* is the path with the smallest index that does not exist at the time of
\* the call, and it differs from the directory of every executor record
\* created before, whether that directory has been created on disk, is still
\* to be created by the isolation module, or belongs to a removed executor
\* that is created anew.
C29_WorkDirectoryUnique ==
  [][\A i \in Dispatched(out', "launchExecutor") :
       LET d == out'[i].args.directory IN
       /\ d \notin dirs
       /\ d = WorkDirectory(d.framework_id, d.executor_id, d.n)
       /\ \A m \in 0..(d.n - 1) :
            WorkDirectory(d.framework_id, d.executor_id, m) \in dirs
       /\ d \notin launching
       /\ d \notin Directories(frameworks)]_vars

\* C30 (assertion validity): whatever messages arrive, a RunTask repeating a
\* task id launched on a registered executor included, every call of
\* Executor::addTask, from runTask and from the flush loop of
\* registerExecutor, finds the task id absent from launchedTasks, and every
\* call of Framework::createExecutor finds the executor id absent from the
\* framework.
C30_ChecksHold ==
  [][/\ last'.name = "runTask" =>
          LET f == last'.args.framework_id
              task == last'.args.task
              e == TargetExecutor(frameworks', f, task)
          IN IF <<f, e>> \in ExecutorKeys(frameworks)
             THEN frameworks[f].executors[e].pid # NoPid =>
                    addTaskCheck(frameworks[f].executors[e], task)
             ELSE f \in DOMAIN frameworks =>
                    createExecutorCheck(frameworks[f], ExecutorInfo(e))
     /\ (last'.name = "registerExecutor" /\ RegisteredStep(out')) =>
          LET executor == frameworks[last'.args.framework_id]
                            .executors[last'.args.executor_id]
          IN \A t \in DOMAIN executor.queuedTasks :
               addTaskCheck(executor, executor.queuedTasks[t])]_vars

\* The last index of a non-empty set of log indices.
Latest(S) == CHOOSE i \in S : \A j \in S : j <= i

\* C31 (isolation view is current): at the end of every handler, for every
\* registered executor, the bundle carried by the most recent resourcesChanged
\* dispatched for it equals the executor's current resources.  Stated per
\* handler that ran to its end: a registered executor the handler notified
\* isolation about has, in the last such dispatch, its resources as they are
\* when the handler ends; one the handler did not notify about was registered
\* before the handler and has the resources it had then.
C31_IsolationViewCurrent ==
  [][(last'.name # "none" /\ running' = "running") =>
       \A k \in ExecutorKeys(frameworks') :
         LET after == frameworks'[k[1]].executors[k[2]]
             changed == ChangedAfter(out', k[1], k[2], 0)
         IN after.pid # NoPid =>
              IF changed # {}
              THEN out'[Latest(changed)].args.resources = after.resources
              ELSE /\ k \in ExecutorKeys(frameworks)
                   /\ frameworks[k[1]].executors[k[2]].pid # NoPid
                   /\ frameworks[k[1]].executors[k[2]].resources = after.resources]_vars

\* C34 (no Shutdown to an empty endpoint): no handler sends a Shutdown
\* message to the empty endpoint, and killFramework and terminate dispatch
\* killExecutor to the isolation module for every executor they remove,
\* registered or not.
C34_ShutdownEndpoint ==
  [][/\ \A i \in SentType(out', "Shutdown") : out'[i].to # NoPid
     /\ last'.name \in {"killFramework", "terminate"} =>
          \A k \in ExecutorKeys(frameworks) \ ExecutorKeys(frameworks') :
            \E i \in Dispatched(out', "killExecutor") :
              /\ out'[i].args.framework_id = k[1]
              /\ out'[i].args.executor_id = k[2]]_vars

\* C35 (no framework without executors): in every state between handlers, and
\* at the end of every handler, each framework in the framework map has at
\* least one executor record.
C35_FrameworkHasExecutor ==
  \A f \in DOMAIN frameworks : DOMAIN frameworks[f].executors # {}

\* executorExited removed the only executor of a framework, and the framework
\* went with it.
C35_Witness ==
  /\ last.name = "executorExited"
  /\ SentType(out, "ExitedExecutor") # {}
  /\ last.args.framework_id \notin DOMAIN frameworks

\* C36 (task id uniqueness within a framework): in every reachable state a
\* task id is in the queuedTasks or launchedTasks of at most one executor of a
\* framework, whatever RunTask messages arrived.
C36_TaskIdUnique ==
  \A f \in DOMAIN frameworks : \A t \in TaskIds : Cardinality(Holders(f, t)) <= 1

\* The states of a task that is still to run or running.
LiveStates == {"TASK_STARTING", "TASK_RUNNING"}

\* C37 (no terminal task in the graph): in every state between handlers, and
\* at the end of every handler, every task in an executor's launchedTasks has
\* state TASK_STARTING or TASK_RUNNING, and every task a ReregisterSlave lists
\* has one of these states.
C37_LaunchedTasksLive ==
  /\ \A task \in LaunchedTasks : task.state \in LiveStates
  /\ \A i \in SentType(out, "ReregisterSlave") :
       \A task \in BagToSet(out[i].msg.tasks) : task.state \in LiveStates

\* A terminal update for a launched task was accepted, the task is gone and
\* another launched task stays in the graph.
C37_Witness ==
  /\ last.name = "statusUpdate"
  /\ last.args.update.status.state \in TerminalStates
  /\ \E i \in Entries(out, "updateTaskState") :
       \E j \in Entries(out, "ledger") : j > i
  /\ LaunchedTasks # {}
  /\ \A task \in LaunchedTasks :
       task.task_id # last.args.update.status.task_id

\* C32 (acknowledgement matching): when the acknowledgement the master sent
\* for an update u1 of a task is handled while a later update u2 of the same
\* task is stored in the framework's updates, u2 stays stored.
C32_AcknowledgementMatching ==
  [][last'.name = "statusUpdateAcknowledgement" =>
       LET f == last'.args.framework_id
           t == last'.args.task_id
       IN \A u1 \in last'.args.answers :
            (/\ f \in DOMAIN frameworks
             /\ t \in DOMAIN frameworks[f].updates
             /\ frameworks[f].updates[t].timestamp > u1.timestamp) =>
              /\ f \in DOMAIN frameworks'
              /\ t \in DOMAIN frameworks'[f].updates
              /\ frameworks'[f].updates[t] = frameworks[f].updates[t]]_vars

\* C33 (executor incarnation): a RegisterExecutor from a process that was not
\* launched for the executor record now under its framework id and executor
\* id (it was launched with another work directory than the record's) is
\* answered with Shutdown alone and leaves the record as it is: endpoint
\* unset, queued tasks queued.
C33_ExecutorIncarnation ==
  [][last'.name = "registerExecutor" =>
       LET f == last'.args.framework_id
           e == last'.args.executor_id
       IN (/\ <<f, e>> \in ExecutorKeys(frameworks)
           /\ last'.args.directory # {frameworks[f].executors[e].directory}) =>
            /\ Tags(SentTo(out', last'.args.from)) = <<"Shutdown">>
            /\ frameworks' = frameworks]_vars

====
